---- MODULE Spec2Model ----
(***************************************************************************)
(* The Jordan-Wigner transform of grove/fermion_transforms/jwtransform.py. *)
(*                                                                         *)
(* JWTransform is a stateless object whose methods are pure functions of   *)
(* their arguments.  The model is a caller that, from its idle position,   *)
(* calls one method with arguments drawn from bounded sets, holds the      *)
(* returned Pauli sum, and drops it again.                                 *)
(*                                                                         *)
(* The Pauli algebra (PauliTerm, PauliSum of pyquil.paulis) is the library *)
(* the file imports; it is modelled by what it does: a term is a           *)
(* coefficient and a Pauli label per qubit, a sum is the ordered list of   *)
(* its terms, products follow the Pauli multiplication table, and          *)
(* simplify() merges like terms and drops the terms whose coefficient is   *)
(* zero.  Every coefficient the program builds is a complex number whose   *)
(* parts are dyadic rationals (products and sums of 1, 0.5, 0.25, 0.125    *)
(* and i), which binary floating point represents exactly; they are        *)
(* modelled exactly, as (re + i*im) / 2^e.                                 *)
(***************************************************************************)
EXTENDS Integers, Sequences, FiniteSets, TLC

VARIABLES pc, op, indices, conjugate, result

vars == <<pc, op, indices, conjugate, result>>

\* Largest mode (orbital) index drawn as an input.
MaxIndex == 5

\* Longest index list handed to product_ops with arbitrary flags.
MaxLen == 2

Modes == 0..MaxIndex

Flags == {-1, 1}

(***************************************************************************)
(* Complex numbers with dyadic parts: [re, im, e] is (re + i*im) / 2^e,    *)
(* kept in lowest terms so that equal numbers are equal records.           *)
(***************************************************************************)
RECURSIVE Norm(_, _, _)
Norm(re, im, e) ==
    IF re = 0 /\ im = 0 THEN [re |-> 0, im |-> 0, e |-> 0]
    ELSE IF e > 0 /\ re % 2 = 0 /\ im % 2 = 0 THEN Norm(re \div 2, im \div 2, e - 1)
    ELSE [re |-> re, im |-> im, e |-> e]

Real(n, e) == Norm(n, 0, e)

Imag(n, e) == Norm(0, n, e)

CZero == Real(0, 0)

COne == Real(1, 0)

CMul(x, y) == Norm(x.re * y.re - x.im * y.im, x.re * y.im + x.im * y.re, x.e + y.e)

CAdd(x, y) ==
    LET m == IF x.e > y.e THEN x.e ELSE y.e
    IN Norm(x.re * 2^(m - x.e) + y.re * 2^(m - y.e),
            x.im * 2^(m - x.e) + y.im * 2^(m - y.e), m)

\* np.isclose(coefficient, 0.0): the nonzero coefficients of the program are
\* at least 2^-n for an n-fold product, far above the 1e-8 tolerance.
IsZero(x) == x.re = 0 /\ x.im = 0

(***************************************************************************)
(* pyquil.paulis.PauliTerm                                                 *)
(***************************************************************************)
\* PauliTerm(op, index, coefficient): the label "I" stores no operator.
PauliTerm(label, index, coefficient) ==
    [ops |-> [q \in Modes |-> IF q = index THEN label ELSE "I"],
     coefficient |-> coefficient]

\* ID = PauliTerm("I", 0) and ZERO = PauliTerm("I", 0, 0).
ID == PauliTerm("I", 0, COne)

ZERO == PauliTerm("I", 0, CZero)

\* PAULI_PROD: the label of the product of two single-qubit Paulis.
PAULI_PROD(a, b) ==
    IF a = "I" THEN b
    ELSE IF b = "I" THEN a
    ELSE IF a = b THEN "I"
    ELSE CHOOSE c \in {"X", "Y", "Z"} : c # a /\ c # b

\* PAULI_COEFF: the phase of that product, as a power of i: XY = iZ, YZ = iX,
\* ZX = iY, and the reversed orders with -i = i^3.
PAULI_COEFF(a, b) ==
    IF a = "I" \/ b = "I" \/ a = b THEN 0
    ELSE IF <<a, b>> \in {<<"X", "Y">>, <<"Y", "Z">>, <<"Z", "X">>} THEN 1
    ELSE 3

\* i^k
IPow(k) ==
    IF k % 4 = 0 THEN Real(1, 0)
    ELSE IF k % 4 = 1 THEN Imag(1, 0)
    ELSE IF k % 4 = 2 THEN Real(-1, 0)
    ELSE Imag(-1, 0)

RECURSIVE PhaseUpTo(_, _, _)
PhaseUpTo(s, t, q) ==
    IF q < 0 THEN 0
    ELSE PhaseUpTo(s, t, q - 1) + PAULI_COEFF(s.ops[q], t.ops[q])

\* PauliTerm.__mul__(PauliTerm): multiply factor by factor on every qubit.
TermMul(s, t) ==
    [ops |-> [q \in Modes |-> PAULI_PROD(s.ops[q], t.ops[q])],
     coefficient |-> CMul(CMul(s.coefficient, t.coefficient),
                          IPow(PhaseUpTo(s, t, MaxIndex)))]

\* PauliTerm.__mul__(Number) and __rmul__: term_with_coeff.
TermScale(t, c) == [t EXCEPT !.coefficient = CMul(@, c)]

(***************************************************************************)
(* pyquil.paulis.PauliSum: the list of its terms.                          *)
(***************************************************************************)
\* PauliSum.__init__: an empty list of terms becomes [0.0 * ID].
PauliSum(terms) == IF terms = <<>> THEN <<ZERO>> ELSE terms

\* One step of simplify's grouping: a term joins the like term seen before,
\* or opens a new group in order of first appearance.
LikeTerm(acc, t) ==
    IF \E n \in DOMAIN acc : acc[n].ops = t.ops
    THEN [n \in DOMAIN acc |->
            IF acc[n].ops = t.ops
            THEN [acc[n] EXCEPT !.coefficient = CAdd(@, t.coefficient)]
            ELSE acc[n]]
    ELSE Append(acc, t)

RECURSIVE LikeTerms(_, _)
LikeTerms(terms, n) ==
    IF n = 0 THEN <<>> ELSE LikeTerm(LikeTerms(terms, n - 1), terms[n])

NonZero(t) == ~IsZero(t.coefficient)

\* PauliSum.simplify(): merge like terms, drop zero coefficients.
simplify(terms) == PauliSum(SelectSeq(LikeTerms(terms, Len(terms)), NonZero))

\* PauliSum.__add__
SumAdd(A, B) == simplify(A \o B)

\* PauliSum.__mul__: every left term times every right term, simplified.
SumMul(A, B) ==
    simplify([n \in 1..(Len(A) * Len(B)) |->
                TermMul(A[((n - 1) \div Len(B)) + 1], B[((n - 1) % Len(B)) + 1])])

\* PauliSum.__mul__(Number)
SumScale(A, c) == simplify([n \in DOMAIN A |-> TermScale(A[n], c)])

\* PauliSum.__sub__: self + -1. * other
SumSub(A, B) == SumAdd(A, SumScale(B, Real(-1, 0)))

\* PauliSum.__eq__: the same number of terms and the same set of terms.
SumEq(A, B) ==
    /\ Len(A) = Len(B)
    /\ {A[n] : n \in DOMAIN A} = {B[n] : n \in DOMAIN B}

(***************************************************************************)
(* JWTransform                                                             *)
(***************************************************************************)
\* The running product  z *= PauliTerm('Z', index)  for index in range(lo, hi),
\* started from start.
RECURSIVE ZChain(_, _, _)
ZChain(start, lo, hi) ==
    IF hi <= lo THEN start
    ELSE TermMul(ZChain(start, lo, hi - 1), PauliTerm("Z", hi - 1, COne))

\* Variants of _operator_generator with one slip each: the flag's sign lost,
\* the parity string left out, the flag not used at all.
_operator_generator_sign_flipped(index, conj) ==
    LET Zstring == ZChain(PauliTerm("I", 0, COne), 0, index)
        pterm1 == TermMul(Zstring, PauliTerm("X", index, Real(1, 1)))
        pterm2 == TermMul(Zstring, PauliTerm("Y", index, Imag(-conj, 1)))
    IN simplify(SumMul(<<PauliTerm("I", 0, COne)>>, simplify(<<pterm1, pterm2>>)))

_operator_generator_no_zstring(index, conj) ==
    LET pterm1 == PauliTerm("X", index, Real(1, 1))
        pterm2 == PauliTerm("Y", index, Imag(conj, 1))
    IN simplify(SumMul(<<PauliTerm("I", 0, COne)>>, simplify(<<pterm1, pterm2>>)))

_operator_generator_conj_ignored(index, conj) ==
    LET Zstring == ZChain(PauliTerm("I", 0, COne), 0, index)
        pterm1 == TermMul(Zstring, PauliTerm("X", index, Real(1, 1)))
        pterm2 == TermMul(Zstring, PauliTerm("Y", index, Imag(1, 1)))
    IN simplify(SumMul(<<PauliTerm("I", 0, COne)>>, simplify(<<pterm1, pterm2>>)))

_operator_generator(index, conj) ==
    LET pterm0 == PauliTerm("I", 0, COne)
        Zstring == ZChain(PauliTerm("I", 0, COne), 0, index)
        pterm1 == TermMul(Zstring, PauliTerm("X", index, Real(1, 1)))
        scalar == Imag(conj, 1)
        pterm2 == TermMul(Zstring, PauliTerm("Y", index, scalar))
        pterm == SumMul(<<pterm0>>, simplify(<<pterm1, pterm2>>))
    IN simplify(pterm)

create(index) == _operator_generator(index, -1)

kill(index) == _operator_generator(index, 1)

Min(a, b) == IF a < b THEN a ELSE b

Max(a, b) == IF a < b THEN b ELSE a

\* The loop of product_ops over zip(conjugate, indices), n pairs taken.
RECURSIVE ProductUpTo(_, _, _)
ProductUpTo(ix, cj, n) ==
    IF n = 0 THEN <<PauliTerm("I", 0, COne)>>
    ELSE SumMul(ProductUpTo(ix, cj, n - 1), _operator_generator(ix[n], cj[n]))

\* product_ops accumulating on the wrong side: pterm = generator * pterm.
RECURSIVE ProductDownFrom(_, _, _, _)
ProductDownFrom(ix, cj, n, len) ==
    IF n > len THEN <<PauliTerm("I", 0, COne)>>
    ELSE SumMul(ProductDownFrom(ix, cj, n + 1, len), _operator_generator(ix[n], cj[n]))

product_ops_reversed(ix, cj) ==
    simplify(ProductDownFrom(ix, cj, 1, Min(Len(ix), Len(cj))))

product_ops(ix, cj) == simplify(ProductUpTo(ix, cj, Min(Len(ix), Len(cj))))

\* z_chain = 1 is the number one; multiplying a term by it or by the
\* identity term gives the same term.
Unit == PauliTerm("I", 0, COne)

\* one_body_term with the parity chain between the two indices left out.
one_body_term_no_chain(i, j) ==
    LET lower_index == Min(i, j)
        upper_index == Max(i, j)
        hop(pauli) == TermMul(PauliTerm(pauli, lower_index, COne),
                              PauliTerm(pauli, upper_index, COne))
    IN IF lower_index # upper_index
       THEN SumScale(SumAdd(simplify(<<PauliTerm("I", 0, CZero), hop("X")>>),
                            <<hop("Y")>>), Real(1, 1))
       ELSE simplify(<<PauliTerm("I", lower_index, COne),
                       PauliTerm("Z", lower_index, Real(-1, 0))>>)

one_body_term(i, j) ==
    LET lower_index == Min(i, j)
        upper_index == Max(i, j)
        z_chain == ZChain(Unit, lower_index + 1, upper_index)
        hop(pauli) == TermMul(TermMul(PauliTerm(pauli, lower_index, COne), z_chain),
                              PauliTerm(pauli, upper_index, COne))
        ps1 == simplify(<<PauliTerm("I", 0, CZero), hop("X")>>)
        ps2 == SumAdd(ps1, <<hop("Y")>>)
    IN IF lower_index # upper_index
       THEN SumScale(ps2, Real(1, 1))
       ELSE simplify(<<PauliTerm("I", lower_index, COne),
                       PauliTerm("Z", lower_index, Real(-1, 0))>>)

\* itertools.product(['X', 'Y'], repeat=3), in its order.
PauliTriples ==
    <<<<"X", "X", "X">>, <<"X", "X", "Y">>, <<"X", "Y", "X">>, <<"X", "Y", "Y">>,
      <<"Y", "X", "X">>, <<"Y", "X", "Y">>, <<"Y", "Y", "X">>, <<"Y", "Y", "Y">>>>

\* paulis.count('X')
CountX(paulis) == Cardinality({n \in DOMAIN paulis : paulis[n] = "X"})

\* sorted(pairs, key=lambda pair: pair[0]) for pairwise different keys.
SortedByIndex(pairs) ==
    [n \in DOMAIN pairs |->
        CHOOSE p \in {pairs[m] : m \in DOMAIN pairs} :
            Cardinality({m \in DOMAIN pairs : pairs[m][1] < p[1]}) = n - 1]

\* FourTerm with the first parity chain started one index early:
\* range(a, b) for range(a + 1, b).
FourTerm_chain_from_a(i, j, k, l, paulis) ==
    LET majority == IF CountX(paulis) % 2 = 1 THEN "X" ELSE "Y"
        sorted_operators == SortedByIndex(<<<<i, paulis[1]>>, <<j, paulis[2]>>,
                                            <<k, paulis[3]>>, <<l, majority>>>>)
        a == sorted_operators[1][1]
        b == sorted_operators[2][1]
        c == sorted_operators[3][1]
        d == sorted_operators[4][1]
        o1 == PauliTerm(sorted_operators[1][2], a, COne)
        o2 == TermMul(o1, ZChain(Unit, a, b))
        o3 == TermMul(o2, PauliTerm(sorted_operators[2][2], b, COne))
        o4 == TermMul(o3, PauliTerm(sorted_operators[3][2], c, COne))
        o5 == TermMul(o4, ZChain(Unit, c + 1, d))
        operator == TermMul(o5, PauliTerm(sorted_operators[4][2], d, COne))
        parity_condition == paulis[1] # paulis[2] \/ paulis[1] = paulis[3]
        coefficient ==
            IF (i > j) # (k > l)
            THEN (IF ~parity_condition THEN Real(-1, 3) ELSE Real(1, 3))
            ELSE (IF parity_condition THEN Real(-1, 3) ELSE Real(1, 3))
    IN TermScale(operator, coefficient)

\* The term one label triple adds in the branch of four different indices.
FourTerm(i, j, k, l, paulis) ==
    LET majority == IF CountX(paulis) % 2 = 1 THEN "X" ELSE "Y"
        sorted_operators == SortedByIndex(<<<<i, paulis[1]>>, <<j, paulis[2]>>,
                                            <<k, paulis[3]>>, <<l, majority>>>>)
        a == sorted_operators[1][1]
        b == sorted_operators[2][1]
        c == sorted_operators[3][1]
        d == sorted_operators[4][1]
        o1 == PauliTerm(sorted_operators[1][2], a, COne)
        o2 == TermMul(o1, ZChain(Unit, a + 1, b))
        o3 == TermMul(o2, PauliTerm(sorted_operators[2][2], b, COne))
        o4 == TermMul(o3, PauliTerm(sorted_operators[3][2], c, COne))
        o5 == TermMul(o4, ZChain(Unit, c + 1, d))
        operator == TermMul(o5, PauliTerm(sorted_operators[4][2], d, COne))
        parity_condition == paulis[1] # paulis[2] \/ paulis[1] = paulis[3]
        coefficient ==
            IF (i > j) # (k > l)
            THEN (IF ~parity_condition THEN Real(-1, 3) ELSE Real(1, 3))
            ELSE (IF parity_condition THEN Real(-1, 3) ELSE Real(1, 3))
    IN TermScale(operator, coefficient)

RECURSIVE FourDistinct(_, _, _, _, _, _)
FourDistinct(ps, i, j, k, l, n) ==
    IF n = 0 THEN ps
    ELSE SumAdd(FourDistinct(ps, i, j, k, l, n - 1),
                <<FourTerm(i, j, k, l, PauliTriples[n])>>)

\* The branch of three different indices.
ThreeDistinct(ps, i, j, k, l) ==
    LET x == IF i = k THEN j ELSE IF i = l THEN j ELSE IF j = k THEN i ELSE i
        y == IF i = k THEN l ELSE IF i = l THEN k ELSE IF j = k THEN l ELSE k
        a == Min(x, y)
        b == Max(x, y)
        c == IF i = k \/ i = l THEN i ELSE j
        z_chain == ZChain(Unit, a + 1, b)
        pauli_z == PauliTerm("Z", c, COne)
        coefficient == IF i = l \/ j = k THEN Real(1, 2) ELSE Real(-1, 2)
        hopping_term(operator) ==
            TermScale(TermMul(TermMul(PauliTerm(operator, a, COne), z_chain),
                              PauliTerm(operator, b, COne)), coefficient)
        step(p, operator) ==
            SumAdd(SumSub(p, <<TermMul(pauli_z, hopping_term(operator))>>),
                   <<hopping_term(operator)>>)
    IN step(step(ps, "X"), "Y")

\* The branch of two different indices.
TwoDistinct(ps, i, j, k, l) ==
    LET coefficient == IF i = l THEN Real(-1, 1) ELSE Real(1, 1)
        p1 == SumSub(ps, <<TermScale(ID, coefficient)>>)
        p2 == SumAdd(p1, <<PauliTerm("Z", i, coefficient)>>)
        p3 == SumAdd(p2, <<PauliTerm("Z", j, coefficient)>>)
    IN SumSub(p3, <<TermMul(TermScale(PauliTerm("Z", Min(i, j), COne), coefficient),
                            PauliTerm("Z", Max(i, j), COne))>>)

\* two_body_term with the degenerate test written with "and" for "or".
two_body_term_and_guard(i, j, k, l) ==
    IF i = j /\ k = l THEN PauliSum(<<ZERO>>)
    ELSE LET ps == PauliSum(<<ID>>)
             distinct == Cardinality({i, j, k, l})
         IN IF distinct = 4 THEN FourDistinct(ps, i, j, k, l, Len(PauliTriples))
            ELSE IF distinct = 3 THEN ThreeDistinct(ps, i, j, k, l)
            ELSE IF distinct = 2 THEN TwoDistinct(ps, i, j, k, l)
            ELSE ps

two_body_term(i, j, k, l) ==
    IF i = j \/ k = l THEN PauliSum(<<ZERO>>)
    ELSE LET ps == PauliSum(<<ID>>)
             distinct == Cardinality({i, j, k, l})
         IN IF distinct = 4 THEN FourDistinct(ps, i, j, k, l, Len(PauliTriples))
            ELSE IF distinct = 3 THEN ThreeDistinct(ps, i, j, k, l)
            ELSE IF distinct = 2 THEN TwoDistinct(ps, i, j, k, l)
            ELSE ps

(***************************************************************************)
(* The caller.                                                             *)
(***************************************************************************)
Init ==
    /\ pc = "idle"
    /\ op = "none"
    /\ indices = <<>>
    /\ conjugate = <<>>
    /\ result = <<>>

CallCreate ==
    /\ pc = "idle"
    /\ \E n \in Modes :
        /\ indices' = <<n>>
        /\ result' = create(n)
    /\ op' = "create"
    /\ conjugate' = <<>>
    /\ pc' = "returned"

CallKill ==
    /\ pc = "idle"
    /\ \E n \in Modes :
        /\ indices' = <<n>>
        /\ result' = kill(n)
    /\ op' = "kill"
    /\ conjugate' = <<>>
    /\ pc' = "returned"

\* The index and flag lists product_ops is called with: every list of up to
\* MaxLen entries with every choice of flags, and every list of four indices
\* with the two-body flags [-1, -1, +1, +1].
SeqsOf(S, n) == [1..n -> S]

ProductInputs ==
    UNION {SeqsOf(Modes, n) \X SeqsOf(Flags, n) : n \in 1..MaxLen}
    \cup (SeqsOf(Modes, 4) \X {<<-1, -1, 1, 1>>})

CallProductOps ==
    /\ pc = "idle"
    /\ \E in \in ProductInputs :
        /\ indices' = in[1]
        /\ conjugate' = in[2]
        /\ result' = product_ops(in[1], in[2])
    /\ op' = "product_ops"
    /\ pc' = "returned"

CallOneBodyTerm ==
    /\ pc = "idle"
    /\ \E i \in Modes, j \in Modes :
        /\ indices' = <<i, j>>
        /\ result' = one_body_term(i, j)
    /\ op' = "one_body_term"
    /\ conjugate' = <<>>
    /\ pc' = "returned"

CallTwoBodyTerm ==
    /\ pc = "idle"
    /\ \E i \in Modes, j \in Modes, k \in Modes, l \in Modes :
        /\ indices' = <<i, j, k, l>>
        /\ result' = two_body_term(i, j, k, l)
    /\ op' = "two_body_term"
    /\ conjugate' = <<>>
    /\ pc' = "returned"

Drop ==
    /\ pc = "returned"
    /\ pc' = "idle"
    /\ op' = "none"
    /\ indices' = <<>>
    /\ conjugate' = <<>>
    /\ result' = <<>>

Next ==
    \/ CallCreate
    \/ CallKill
    \/ CallProductOps
    \/ CallOneBodyTerm
    \/ CallTwoBodyTerm
    \/ Drop

Spec == Init /\ [][Next]_vars

(***************************************************************************)
(* Properties.  Each is stated of the call that has just returned: ix, cj  *)
(* and r are its index list, its flag list and the Pauli sum it returned.  *)
(***************************************************************************)
Returned(name) == pc = "returned" /\ op = name

\* The term a_i^dag a_j^dag a_k a_l plus its Hermitian conjugate, expanded
\* operator by operator.
TwoBodyExpansion(i, j, k, l) ==
    SumAdd(product_ops(<<i, j, k, l>>, <<-1, -1, 1, 1>>),
           product_ops(<<l, k, j, i>>, <<-1, -1, 1, 1>>))

Distinct(ix) == Cardinality({ix[n] : n \in DOMAIN ix})

\* What the three non-degenerate branches of two_body_term return: the
\* expansion plus the identity the running sum is started from.
TwoBodyOffByIdentity ==
    \A ix \in {indices}, r \in {result} :
        (Returned("two_body_term") /\ ix[1] # ix[2] /\ ix[3] # ix[4])
            => SumEq(r, SumAdd(TwoBodyExpansion(ix[1], ix[2], ix[3], ix[4]), <<ID>>))

\* C1: with four pairwise different indices, two_body_term(i,j,k,l) equals
\* product_ops([i,j,k,l],[-1,-1,+1,+1]) + product_ops([l,k,j,i],[-1,-1,+1,+1]),
\* with no extra and no missing term.
C1_FourDistinctEqualsExpansion ==
    \A ix \in {indices}, r \in {result} :
        (Returned("two_body_term") /\ Distinct(ix) = 4)
            => SumEq(r, TwoBodyExpansion(ix[1], ix[2], ix[3], ix[4]))

\* C2: with i # j, k # l and exactly three different indices,
\* two_body_term(i,j,k,l) equals the same expansion.
C2_ThreeDistinctEqualsExpansion ==
    \A ix \in {indices}, r \in {result} :
        (Returned("two_body_term") /\ ix[1] # ix[2] /\ ix[3] # ix[4] /\ Distinct(ix) = 3)
            => SumEq(r, TwoBodyExpansion(ix[1], ix[2], ix[3], ix[4]))

CNeg(x) == [x EXCEPT !.re = -x.re, !.im = -x.im]

\* The closed form of the branch of two different indices.
TwoModeClosedForm(i, j, l) ==
    LET c == IF i = l THEN Real(-1, 1) ELSE Real(1, 1)
        ZZ == [ops |-> [q \in Modes |-> IF q = i \/ q = j THEN "Z" ELSE "I"],
               coefficient |-> CNeg(c)]
    IN <<PauliTerm("I", 0, CNeg(c)), PauliTerm("Z", i, c), PauliTerm("Z", j, c), ZZ>>

\* C3: with i # j and {k,l} = {i,j}, two_body_term(i,j,k,l) is exactly
\* -c*I + c*Z_i + c*Z_j - c*Z_min*Z_max with c = -0.5 if i = l, else +0.5.
C3_TwoDistinctClosedForm ==
    \A ix \in {indices}, r \in {result} :
        (Returned("two_body_term") /\ ix[1] # ix[2] /\ ix[3] # ix[4] /\ Distinct(ix) = 2)
            => SumEq(r, TwoModeClosedForm(ix[1], ix[2], ix[4]))

\* C4: one_body_term(i,j) equals product_ops([i,j],[-1,+1]) +
\* product_ops([j,i],[-1,+1]) for every i, j, and is exactly I - Z_i for i = j.
C4_OneBodyEqualsExpansion ==
    \A ix \in {indices}, r \in {result} :
        Returned("one_body_term") =>
            /\ SumEq(r, SumAdd(product_ops(<<ix[1], ix[2]>>, <<-1, 1>>),
                               product_ops(<<ix[2], ix[1]>>, <<-1, 1>>)))
            /\ ix[1] = ix[2] =>
                  SumEq(r, <<PauliTerm("I", 0, COne), PauliTerm("Z", ix[1], Real(-1, 0))>>)

C4_Witness ==
    /\ Returned("one_body_term")
    /\ indices = <<3, 0>>
    /\ Len(result) = 2
    /\ \E n \in DOMAIN result :
          /\ result[n].ops = [q \in Modes |-> IF q \in {0, 3} THEN "Y"
                                              ELSE IF q \in {1, 2} THEN "Z" ELSE "I"]
          /\ result[n].coefficient = Real(1, 1)

\* The string Z_0 ... Z_{n-1} P_n.
LadderString(n, label) ==
    [q \in Modes |-> IF q < n THEN "Z" ELSE IF q = n THEN label ELSE "I"]

LadderForm(n, sign) ==
    <<[ops |-> LadderString(n, "X"), coefficient |-> Real(1, 1)],
      [ops |-> LadderString(n, "Y"), coefficient |-> Imag(sign, 1)]>>

\* C5: create(n) is 0.5*Z_0..Z_{n-1}*X_n - 0.5i*Z_0..Z_{n-1}*Y_n and kill(n) is
\* the same with + 0.5i: two terms, Z on every index below n and nowhere else.
C5_LadderOperators ==
    \A ix \in {indices}, r \in {result} :
        /\ Returned("create") => SumEq(r, LadderForm(ix[1], -1))
        /\ Returned("kill") => SumEq(r, LadderForm(ix[1], 1))

C5_Witness ==
    /\ Returned("create")
    /\ indices = <<MaxIndex>>
    /\ Len(result) = 2
    /\ \A n \in DOMAIN result : \A q \in 0..(MaxIndex - 1) : result[n].ops[q] = "Z"

\* The list with the entries at t and t + 1 exchanged.
SwapAt(s, t) ==
    [n \in DOMAIN s |-> IF n = t THEN s[t + 1] ELSE IF n = t + 1 THEN s[t] ELSE s[n]]

\* C6: exchanging two adjacent (index, flag) entries whose indices differ
\* negates the result of product_ops.
C6_AdjacentSwapNegates ==
    \A ix \in {indices}, cj \in {conjugate}, r \in {result} :
        Returned("product_ops") =>
            \A t \in 1..(Len(ix) - 1) :
                ix[t] # ix[t + 1] =>
                    \A sx \in {SwapAt(ix, t)}, sc \in {SwapAt(cj, t)} :
                        SumEq(product_ops(sx, sc), SumScale(r, Real(-1, 0)))

C6_Witness ==
    /\ Returned("product_ops")
    /\ indices = <<0, 3, 3, 1>>
    /\ conjugate = <<-1, -1, 1, 1>>
    /\ Len(result) = 8
    /\ \A n \in DOMAIN result : ~IsZero(result[n].coefficient)

\* C7: product_ops is the left-to-right product of the single-mode operators
\* in the order given: product_ops([p,q],[-1,+1]) = create(p)*kill(q) and
\* product_ops([p,q,s,r],[-1,-1,+1,+1]) = create(p)*create(q)*kill(s)*kill(r).
C7_ProductIsOrderedProduct ==
    \A ix \in {indices}, cj \in {conjugate}, r \in {result} :
        /\ (Returned("product_ops") /\ cj = <<-1, 1>>)
              => SumEq(r, SumMul(create(ix[1]), kill(ix[2])))
        /\ (Returned("product_ops") /\ cj = <<-1, -1, 1, 1>>)
              => SumEq(r, SumMul(SumMul(SumMul(create(ix[1]), create(ix[2])),
                                        kill(ix[3])), kill(ix[4])))

C7_Witness ==
    /\ Returned("product_ops")
    /\ indices = <<0, 3, 1, 2>>
    /\ conjugate = <<-1, -1, 1, 1>>
    /\ Len(result) = 16

\* C8: whenever i = j or k = l, two_body_term(i,j,k,l) is the zero Pauli sum.
C8_DegenerateIsZero ==
    \A ix \in {indices}, r \in {result} :
        (Returned("two_body_term") /\ (ix[1] = ix[2] \/ ix[3] = ix[4]))
            => SumEq(r, simplify(<<ZERO>>))

C8_Witness ==
    /\ Returned("two_body_term")
    /\ indices = <<2, 1, 3, 3>>
    /\ Len(result) = 1
    /\ IsZero(result[1].coefficient)

\* C9: every coefficient of a sum returned by one_body_term or two_body_term
\* is real.
C9_TermsAreHermitian ==
    (Returned("one_body_term") \/ Returned("two_body_term"))
        => \A n \in DOMAIN result : result[n].coefficient.im = 0

C9_Witness ==
    /\ Returned("two_body_term")
    /\ Distinct(indices) = 4
    /\ indices[1] > indices[2]
    /\ Len(result) >= 8
    /\ \A n \in DOMAIN result : result[n].coefficient.re # 0

\* C10: product_ops([p,p],[+1,-1]) + product_ops([p,p],[-1,+1]) is the
\* identity with coefficient 1.
C10_SameModeAnticommutator ==
    \A ix \in {indices}, cj \in {conjugate}, r \in {result} :
        (Returned("product_ops") /\ Len(ix) = 2 /\ ix[1] = ix[2] /\ cj = <<1, -1>>)
            => SumEq(SumAdd(r, product_ops(ix, <<-1, 1>>)), <<ID>>)

C10_Witness ==
    /\ Returned("product_ops")
    /\ indices = <<MaxIndex, MaxIndex>>
    /\ conjugate = <<1, -1>>
    /\ Len(result) = 2
    /\ \E n \in DOMAIN result :
          result[n].ops = PauliTerm("Z", MaxIndex, COne).ops

====
